---- MODULE Spec2Model ----
(***************************************************************************)
(* Model of _modules/hubble.py: the nova audit pipeline.                   *)
(*                                                                         *)
(*   audit()                 primary entry point, terse / verbose views    *)
(*   _run_audit()            profile selection, module fan-out, merging,   *)
(*                           compensating controls                         *)
(*   top()                   topfile batching by tag filter                *)
(*   _calculate_compliance() percentage over Success/Failure/Controlled    *)
(*                                                                         *)
(* Python strings that the code splits, joins or formats are sequences of  *)
(* one-character strings.  A dict is a function; "key in d" is             *)
(* "key \in DOMAIN d".  A list is a sequence.                              *)
(***************************************************************************)
EXTENDS Integers, Sequences, FiniteSets, TLC

VARIABLES
    nova_dict,      \* __nova__._dict: the loaded modules, in iteration order
    nova_data,      \* __nova__.__data__: profile key -> profile data
    fn,             \* the entry point called last ("none" before any call)
    args,           \* the arguments of that call
    ret,            \* what that call returned
    module_calls,   \* the module invocations that call made, in order
    run_trace       \* _run_audit's intermediate values, when it was called

vars == <<nova_dict, nova_data, fn, args, ret, module_calls, run_trace>>

-----------------------------------------------------------------------------
(* Bounds of the model *)

MaxConfigs == 2     \* longest list of requested configs
MaxTop == 2         \* longest list of topfile entries
MaxSuccess == 30    \* largest Success count given to _calculate_compliance
MaxFailure == 22    \* largest Failure count given to _calculate_compliance
MaxControl == 1     \* largest Controlled count given to _calculate_compliance

-----------------------------------------------------------------------------
(* Python values *)

None == <<"None">>
False == <<"False">>

\* bool(x) of a string-or-None-or-False value
Truthy(x) == x # None /\ x # False /\ x # <<>>

\* d.get(key, [])
Get(d, key) == IF key \in DOMAIN d THEN d[key] ELSE <<>>

\* d[key] = val
DictSet(d, key, val) == (key :> val) @@ d

\* d.pop(key)
DictPop(d, key) == [k \in (DOMAIN d) \ {key} |-> d[k]]

\* a variant of DictAppend that appends a value only when the list lacks it
DictAppend_Dedup(d, key, val) ==
    IF \E i \in 1..Len(Get(d, key)) : Get(d, key)[i] = val
    THEN d
    ELSE DictSet(d, key, Append(Get(d, key), val))

\* if key not in d: d[key] = [] ; d[key].append(val)
DictAppend(d, key, val) == DictSet(d, key, Append(Get(d, key), val))

\* if key not in d: d[key] = [] ; d[key].extend(val)
DictExtend(d, key, val) == DictSet(d, key, Get(d, key) \o val)

-----------------------------------------------------------------------------
(* Strings *)

sep == "/"
yaml_ext == <<".", "y", "a", "m", "l">>

\* s.find(sub, i - 1) + 1, or 0 when sub does not occur in s from i on
RECURSIVE FindFrom(_, _, _)
FindFrom(s, sub, i) ==
    IF i + Len(sub) - 1 > Len(s) THEN 0
    ELSE IF \A j \in 1..Len(sub) : s[i + j - 1] = sub[j] THEN i
    ELSE FindFrom(s, sub, i + 1)

Find(s, sub) == FindFrom(s, sub, 1)

\* s.split(c) for a one-character separator c
RECURSIVE Split(_, _)
Split(s, c) ==
    LET i == Find(s, <<c>>)
    IN  IF i = 0 THEN <<s>>
        ELSE <<SubSeq(s, 1, i - 1)>> \o Split(SubSeq(s, i + 1, Len(s)), c)

\* s.split('.yaml')[0]
StripYaml(s) ==
    LET i == Find(s, yaml_ext)
    IN  IF i = 0 THEN s ELSE SubSeq(s, 1, i - 1)

\* posixpath.join(a, b)
Join2(a, b) ==
    IF Len(b) > 0 /\ b[1] = sep THEN b
    ELSE IF a = <<>> \/ a[Len(a)] = sep THEN a \o b
    ELSE a \o <<sep>> \o b

\* os.path.join(*parts)
RECURSIVE JoinFrom(_, _, _)
JoinFrom(path, parts, i) ==
    IF i > Len(parts) THEN path
    ELSE JoinFrom(Join2(path, parts[i]), parts, i + 1)

PathJoin(parts) == JoinFrom(parts[1], parts, 2)

\* audit(): os.path.join(os.path.sep, os.path.join(*(con.split('.yaml')[0]).split('.')))
ConfigPath(con) == Join2(<<sep>>, PathJoin(Split(StripYaml(con), ".")))

\* the requests a caller may name: 'a.b', 'a.b.c.d', '', 'z', 'd.yaml'
Requests ==
    { <<"a", ".", "b">>,
      <<"a", ".", "b", ".", "c", ".", "d">>,
      <<>>,
      <<"z">>,
      <<"d", ".", "y", "a", "m", "l">> }

\* ConfigPath over the requests of the model, evaluated once
config_paths == [con \in Requests |-> ConfigPath(con)]

\* audit(): configs = [ConfigPath(con) for con in configs]
ConfigPaths(configs) ==
    [i \in 1..Len(configs) |-> IF configs[i] \in Requests
                               THEN config_paths[configs[i]]
                               ELSE ConfigPath(configs[i])]

-----------------------------------------------------------------------------
(* The loaded state: __nova__ as the loader (nova_loader.NovaLazyLoader, not *)
(* part of this file) leaves it.                                            *)

m1 == <<"m", "1">>
m2 == <<"m", "2">>
m3 == <<"m", "3">>

\* module names in the iteration order of __nova__._dict
ModuleNames == <<m1, m2, m3>>
ModuleKinds == {"ok", "raise", "bad"}

K_abc == <<"/", "a", "/", "b", "/", "c", ".", "y", "a", "m", "l">>
K_abxc == <<"/", "a", "/", "b", "x", "/", "c", ".", "y", "a", "m", "l">>
K_d == <<"/", "d", ".", "y", "a", "m", "l">>

\* profile keys in the iteration order of __nova__.__data__ and of sets of keys
KeyOrder == <<K_abc, K_abxc, K_d>>
Keys == {KeyOrder[i] : i \in 1..Len(KeyOrder)}

Check(mod, class, tag, description) ==
    [module |-> mod, class |-> class, tag |-> tag, description |-> description]

\* a profile's control entries: a bare tag, or a mapping tag -> reason / detail
CtlStr(tag) == [type |-> "str", value |-> tag]
CtlDict(tag, data) == [type |-> "dict", value |-> <<<<tag, data>>>>]
Reason(text) == [type |-> "str", value |-> <<text>>]
Detail(d) == [type |-> "dict", value |-> d]

P_empty == [checks |-> <<>>, control |-> <<>>]
P_fail ==
    [checks |-> <<Check(m1, "Failure", "T1", "D"),
                  Check(m1, "Failure", "T2", "D"),
                  Check(m3, "Failure", "T1", "D"),
                  Check(m3, "Success", "T3", "D")>>,
     control |-> <<>>]
P_ctl ==
    [checks |-> <<Check(m1, "Failure", "T1", "D"),
                  Check(m2, "Success", "T2", "D"),
                  Check(m2, "Controlled", "T1", "D")>>,
     control |-> <<CtlDict("T1", Reason("accepted"))>>]
P_ctl2 ==
    [checks |-> <<Check(m2, "Failure", "T2", "E"),
                  Check(m3, "Success", "T3", "D")>>,
     control |-> <<CtlStr("T2"),
                   CtlDict("T3", Detail([ticket |-> <<"X">>]))>>]
P_ctl3 ==
    [checks |-> <<Check(m1, "Success", "T3", "E")>>,
     control |-> <<CtlDict("T1", Detail([reason |-> <<"waived">>,
                                         ticket |-> <<"Y">>]))>>]

\* the profiles a key may hold
ProfileMenu(key) ==
    IF key = K_abc THEN {P_empty, P_fail, P_ctl}
    ELSE IF key = K_abxc THEN {P_ctl2}
    ELSE {P_ctl3}

\* An audit module (hubblestack_nova/*.py, not part of this file): called as
\* func(data_list, tags, **kwargs).  A module of kind "raise" raises, one of
\* kind "bad" returns None, and one of kind "ok" returns a dict with the three
\* classes, holding for every profile of data_list the results of the checks
\* that profile declares for it and whose tag matches the tag glob.
TagMatch(tags, tag) == tags = "*" \/ tags = tag

RECURSIVE ModuleEntries(_, _, _, _, _)
ModuleEntries(name, class, data_list, tags, i) ==
    IF i > Len(data_list) THEN <<>>
    ELSE LET checks == data_list[i][2].checks
             mine == SelectSeq(checks, LAMBDA c : c.module = name /\ c.class = class
                                                  /\ TagMatch(tags, c.tag))
         IN  [j \in 1..Len(mine) |-> [tag |-> mine[j].tag,
                                      description |-> mine[j].description]]
             \o ModuleEntries(name, class, data_list, tags, i + 1)

ModuleCall(mod, data_list, tags) ==
    IF mod.kind = "raise" THEN [kind |-> "raise", line |-> "RuntimeError: boom"]
    ELSE IF mod.kind = "bad" THEN [kind |-> "value", value |-> "None"]
    ELSE [kind |-> "dict",
          value |-> [class \in {"Success", "Failure", "Controlled"} |->
                        ModuleEntries(mod.name, class, data_list, tags, 1)]]

-----------------------------------------------------------------------------
(* _run_audit(configs, tags, debug, **kwargs) *)

\* a variant of KeyMatches that compares each segment with startswith()
KeyMatches_StartsWith(config, key) ==
    LET key_path_split == Split(StripYaml(key), sep)
        config_split == Split(config, sep)
    IN  IF config # <<sep>>
        THEN \A i \in 1..Len(config_split) :
                /\ i <= Len(key_path_split)
                /\ Len(config_split[i]) <= Len(key_path_split[i])
                /\ SubSeq(key_path_split[i], 1, Len(config_split[i])) = config_split[i]
        ELSE TRUE

\* lines 254-259: does this key match this config
KeyMatches(config, key) ==
    LET key_path_split == Split(StripYaml(key), sep)
        config_split == Split(config, sep)
    IN  IF config # <<sep>>
        THEN \A i \in 1..Len(config_split) :
                ~(i > Len(key_path_split) \/ config_split[i] # key_path_split[i])
        ELSE TRUE

\* KeyMatches over the configs and keys of the model, evaluated once
key_matches ==
    [config \in {ConfigPath(con) : con \in Requests} |->
        [key \in Keys |-> KeyMatches(config, key)]]

Matches(config, key) ==
    IF config \in DOMAIN key_matches /\ key \in Keys
    THEN key_matches[config][key]
    ELSE KeyMatches(config, key)

NoMatchError(config) ==
    [key |-> config,
     error |-> <<"No matching profiles found for ">> \o config]

\* a variant of SelectConfig whose found flag is not reset for each config
SelectConfig_StickyFound(st, config) ==
    LET found == {key \in DOMAIN nova_data : Matches(config, key)}
    IN  [to_run |-> st.to_run \cup found,
         results |-> IF st.to_run \cup found = {}
                     THEN DictAppend(st.results, "Errors", NoMatchError(config))
                     ELSE st.results]

\* lines 251-269, one iteration of the loop over configs
SelectConfig(st, config) ==
    LET found == {key \in DOMAIN nova_data : Matches(config, key)}
    IN  [to_run |-> st.to_run \cup found,
         results |-> IF found = {}
                     THEN DictAppend(st.results, "Errors", NoMatchError(config))
                     ELSE st.results]

RECURSIVE SelectConfigs(_, _, _)
SelectConfigs(st, configs, i) ==
    IF i > Len(configs) THEN st
    ELSE SelectConfigs(SelectConfig(st, configs[i]), configs, i + 1)

\* lines 272-273
ShortName(key) ==
    LET parts == Split(StripYaml(key), sep) IN parts[Len(parts)]

\* ShortName over the keys of the model, evaluated once
short_names == [key \in Keys |-> ShortName(key)]

RunOrder(to_run) == SelectSeq(KeyOrder, LAMBDA k : k \in to_run)

DataList(to_run) ==
    LET keys == RunOrder(to_run)
    IN  [i \in 1..Len(keys) |-> <<short_names[keys[i]], nova_data[keys[i]]>>]

\* lines 304-307
RECURSIVE MergeKeys(_, _, _)
MergeKeys(results, r, keys) ==
    IF keys = {} THEN results
    ELSE LET key == CHOOSE k \in keys : TRUE
         IN  MergeKeys(DictExtend(results, key, r[key]), r, keys \ {key})

Merge(results, r) == MergeKeys(results, r, DOMAIN r)

\* a variant of RunModule that skips a non-dict return without recording it
RunModule_SilentBadReturn(results, mod, data_list, tags) ==
    LET r == ModuleCall(mod, data_list, tags)
    IN  IF r.kind = "raise"
        THEN DictAppend(results, "Errors",
                        [key |-> mod.name, error |-> <<"exception occurred">>,
                         data |-> r.line])
        ELSE IF r.kind # "dict"
        THEN results
        ELSE Merge(results, r.value)

\* lines 287-307: what the loop does with the outcome r of the call
HandleReturn(results, mod, r) ==
    IF r.kind = "raise"
    THEN DictAppend(results, "Errors",
                    [key |-> mod.name, error |-> <<"exception occurred">>,
                     data |-> r.line])
    ELSE IF r.kind # "dict"
    THEN DictAppend(results, "Errors",
                    [key |-> mod.name, error |-> <<"bad return type">>,
                     data |-> r.value])
    ELSE Merge(results, r.value)

\* lines 285-307, one iteration of the loop over the modules
RunModule(results, mod, data_list, tags) ==
    HandleReturn(results, mod, ModuleCall(mod, data_list, tags))

\* lines 284-307: every module once, in iteration order; calls is the log of
\* the invocations func(data_list, tags, **kwargs), the data list named by
\* the keys of its profiles
RECURSIVE RunModules(_, _, _, _, _)
RunModules(st, keys, data_list, tags, i) ==
    IF i > Len(nova_dict) THEN st
    ELSE RunModules([results |-> RunModule(st.results, nova_dict[i], data_list, tags),
                     calls |-> Append(st.calls, [module |-> nova_dict[i].name,
                                                 keys |-> keys,
                                                 tags |-> tags])],
                    keys, data_list, tags, i + 1)

\* lines 317-321
RECURSIVE ControlItems(_, _, _)
ControlItems(processed, items, i) ==
    IF i > Len(items) THEN processed
    ELSE LET control_tag == items[i][1]
             control_data == items[i][2]
         IN  ControlItems(
                 IF control_data.type = "str"
                 THEN DictSet(processed, control_tag, [reason |-> control_data.value])
                 ELSE DictSet(processed, control_tag, control_data.value),
                 items, i + 1)

\* lines 313-321
RECURSIVE ControlConfig(_, _, _)
ControlConfig(processed, control_config, i) ==
    IF i > Len(control_config) THEN processed
    ELSE LET control == control_config[i]
         IN  ControlConfig(
                 IF control.type = "str"
                 THEN DictSet(processed, control.value, <<>>)
                 ELSE ControlItems(processed, control.value, 1),
                 control_config, i + 1)

\* lines 309-321
RECURSIVE ProcessControls(_, _, _)
ProcessControls(processed, data_list, i) ==
    IF i > Len(data_list) THEN processed
    ELSE ProcessControls(ControlConfig(processed, data_list[i][2].control, 1),
                         data_list, i + 1)

\* processed_controls[failure_tag].get('reason')
ControlReason(processed_controls, tag) ==
    IF "reason" \in DOMAIN processed_controls[tag]
    THEN processed_controls[tag].reason
    ELSE None

\* failure.update({'control': ...})
Annotate(failure, reason) ==
    [tag |-> failure.tag, description |-> failure.description, control |-> reason]

\* lines 329-338: the indices to remove, ascending, and the Controlled list
RECURSIVE ScanFailures(_, _, _, _)
ScanFailures(st, failures, processed_controls, i) ==
    IF i > Len(failures) THEN st
    ELSE LET failure == failures[i]
         IN  ScanFailures(
                 IF failure.tag \in DOMAIN processed_controls
                 THEN [failures_to_remove |-> Append(st.failures_to_remove, i),
                       results |-> DictAppend(st.results, "Controlled",
                                       Annotate(failure,
                                           ControlReason(processed_controls,
                                                         failure.tag)))]
                 ELSE st,
                 failures, processed_controls, i + 1)

\* list.pop(index), 1-based
Pop(list, index) == SubSeq(list, 1, index - 1) \o SubSeq(list, index + 1, Len(list))

\* reversed(sorted(set(failures_to_remove)))
RemovalOrder(failures_to_remove) ==
    [i \in 1..Len(failures_to_remove) |->
        failures_to_remove[Len(failures_to_remove) + 1 - i]]

\* a variant of PopAll that pops the indices in ascending order, passing
\* over an index the shortened list no longer has
RECURSIVE PopAll_Ascending(_, _, _)
PopAll_Ascending(list, order, i) ==
    IF i > Len(order) THEN list
    ELSE LET index == order[Len(order) + 1 - i]
         IN  PopAll_Ascending(IF index <= Len(list) THEN Pop(list, index) ELSE list,
                              order, i + 1)

\* lines 341-343
RECURSIVE PopAll(_, _, _)
PopAll(list, order, i) ==
    IF i > Len(order) THEN list
    ELSE PopAll(Pop(list, order[i]), order, i + 1)

\* a variant of Reclassify that leaves the controlled entries in Failure
Reclassify_KeepsFailure(results, processed_controls) ==
    ScanFailures([failures_to_remove |-> <<>>, results |-> results],
                 Get(results, "Failure"), processed_controls, 1).results

\* lines 341-343
RemoveFailures(st) ==
    IF st.failures_to_remove # <<>>
    THEN DictSet(st.results, "Failure",
                 PopAll(st.results["Failure"], RemovalOrder(st.failures_to_remove), 1))
    ELSE st.results

\* lines 327-343
Reclassify(results, processed_controls) ==
    RemoveFailures(ScanFailures([failures_to_remove |-> <<>>, results |-> results],
                                Get(results, "Failure"), processed_controls, 1))

\* lines 345-347
DropEmpty(results) ==
    [key \in {k \in DOMAIN results : results[k] # <<>>} |-> results[key]]

\* lines 327-349; .results is what the function returns
RunResult(sel, run, processed_controls) ==
    [results |-> DropEmpty(Reclassify(run.results, processed_controls)),
     calls |-> run.calls,
     trace |-> [selected |-> sel.results,
                to_run |-> sel.to_run,
                merged |-> run.results,
                processed_controls |-> processed_controls]]

\* lines 284-349
RunDataList(sel, data_list, tags) ==
    RunResult(sel,
              RunModules([results |-> sel.results, calls |-> <<>>],
                         RunOrder(sel.to_run), data_list, tags, 1),
              ProcessControls(<<>>, data_list, 1))

\* lines 272-349
RunSelected(sel, tags) == RunDataList(sel, DataList(sel.to_run), tags)

\* the whole function
RunAudit(configs, tags) ==
    RunSelected(SelectConfigs([to_run |-> {}, results |-> <<>>], configs, 1), tags)

-----------------------------------------------------------------------------
(* _calculate_compliance(results)                                          *)
(*                                                                         *)
(* float(success + control)/total_audits and compliance * 100 are IEEE 754 *)
(* double operations: each result is rounded to 53 significant bits, ties  *)
(* to even.  A double x > 0 is [lead, limbs, e]: its 53-bit significand is *)
(* the leading integer part lead followed by four 13-bit limbs of          *)
(* fraction, and x = (lead + 0.limbs) * 2^(-e).                            *)

\* 53 significant bits: the leading bit and NLimbs limbs of LimbBase = 2^13
NLimbs == 4
LimbBase == 8192

RECURSIVE Pow2(_)
Pow2(n) == IF n = 0 THEN 1 ELSE 2 * Pow2(n - 1)

\* the number of bits of n > 0
RECURSIVE BitLen(_)
BitLen(n) == IF n < 2 THEN 1 ELSE 1 + BitLen(n \div 2)

\* the least e >= 0 with a * 2^e >= b
RECURSIVE Normalise(_, _, _)
Normalise(a, b, e) == IF a >= b THEN [a |-> a, e |-> e] ELSE Normalise(2 * a, b, e + 1)

\* long division: the next n limbs of r / b, and the remainder
RECURSIVE DivLimbs(_, _, _, _)
DivLimbs(r, b, limbs, n) ==
    IF n = 0 THEN [limbs |-> limbs, r |-> r]
    ELSE DivLimbs((r * LimbBase) % b, b, Append(limbs, (r * LimbBase) \div b), n - 1)

\* lead.limbs + carry at limb i
RECURSIVE AddCarry(_, _, _, _)
AddCarry(lead, limbs, i, carry) ==
    IF carry = 0 THEN [lead |-> lead, limbs |-> limbs]
    ELSE IF i = 0 THEN [lead |-> lead + carry, limbs |-> limbs]
    ELSE AddCarry(lead, [limbs EXCEPT ![i] = (@ + carry) % LimbBase], i - 1,
                  (limbs[i] + carry) \div LimbBase)

\* float(a) / b for integers 0 < a <= b
FloatDiv(a, b) ==
    LET n == Normalise(a, b, 0)
        q == DivLimbs(n.a - b, b, <<>>, NLimbs)
        up == 2 * q.r > b \/ (2 * q.r = b /\ q.limbs[NLimbs] % 2 = 1)
        sum == AddCarry(1, q.limbs, NLimbs, IF up THEN 1 ELSE 0)
    IN  [lead |-> sum.lead, limbs |-> sum.limbs, e |-> n.e]

\* limbs * m + carry, exactly: the new limbs and the carry into the lead
RECURSIVE MulLimbs(_, _, _, _)
MulLimbs(limbs, m, i, carry) ==
    IF i = 0 THEN [limbs |-> limbs, carry |-> carry]
    ELSE MulLimbs([limbs EXCEPT ![i] = (@ * m + carry) % LimbBase], m, i - 1,
                  (limbs[i] * m + carry) \div LimbBase)

\* x * m for a double x and an integer 0 < m < LimbBase: the exact product
\* has BitLen(lead) - 1 bits too many, which rounding drops from the last limb
FloatMul(x, m) ==
    LET p == MulLimbs(x.limbs, m, NLimbs, 0)
        lead == x.lead * m + p.carry
        unit == Pow2(BitLen(lead) - 1)
        low == p.limbs[NLimbs]
        rest == low % unit
        up == 2 * rest > unit \/ (2 * rest = unit /\ (low \div unit) % 2 = 1)
        sum == AddCarry(lead, [p.limbs EXCEPT ![NLimbs] = low - rest], NLimbs,
                        IF up THEN unit ELSE 0)
    IN  [lead |-> sum.lead, limbs |-> sum.limbs, e |-> x.e]

\* int(x) for a double x > 0
FloatToInt(x) == x.lead \div Pow2(x.e)

Digits == <<"0", "1", "2", "3", "4", "5", "6", "7", "8", "9">>

\* str(n) for n >= 0
RECURSIVE IntToStr(_)
IntToStr(n) ==
    IF n < 10 THEN <<Digits[n + 1]>>
    ELSE IntToStr(n \div 10) \o <<Digits[(n % 10) + 1]>>

\* lines 646-648 for success + control > 0
Percentage(passed, total_audits) ==
    LET compliance == FloatToInt(FloatMul(FloatDiv(passed, total_audits), 100))
    IN  IntToStr(compliance) \o <<"%">>

CalculateCompliance(results) ==
    LET success == Len(Get(results, "Success"))
        failure == Len(Get(results, "Failure"))
        control == Len(Get(results, "Controlled"))
        total_audits == success + failure + control
    IN  IF total_audits # 0
        THEN IF success + control = 0 THEN <<"0", "%">>
             ELSE Percentage(success + control, total_audits)
        ELSE None

-----------------------------------------------------------------------------
(* audit(configs, tags, verbose, show_success, show_compliance,            *)
(*       called_from_top)                                                  *)

\* a variant of TerseEntries that keeps one entry per tag
RECURSIVE TerseEntries_ByTag(_, _, _, _)
TerseEntries_ByTag(out, tags_descriptions, list, i) ==
    IF i > Len(list) THEN out
    ELSE LET tag == list[i].tag
             description == list[i].description
         IN  IF tag \notin tags_descriptions
             THEN TerseEntries_ByTag(Append(out, <<tag, description>>),
                                     tags_descriptions \cup {tag}, list, i + 1)
             ELSE TerseEntries_ByTag(out, tags_descriptions, list, i + 1)

\* lines 162-167 and 172-177: {tag: description}, once per (tag, description)
RECURSIVE TerseEntries(_, _, _, _)
TerseEntries(out, tags_descriptions, list, i) ==
    IF i > Len(list) THEN out
    ELSE LET tag == list[i].tag
             description == list[i].description
         IN  IF <<tag, description>> \notin tags_descriptions
             THEN TerseEntries(Append(out, <<tag, description>>),
                               tags_descriptions \cup {<<tag, description>>},
                               list, i + 1)
             ELSE TerseEntries(out, tags_descriptions, list, i + 1)

\* lines 182-188: {tag: control_reason}, once per (tag, description, reason)
RECURSIVE TerseControlled(_, _, _, _)
TerseControlled(out, control_reasons, list, i) ==
    IF i > Len(list) THEN out
    ELSE LET tag == list[i].tag
             control_reason == IF "control" \in DOMAIN list[i]
                               THEN list[i].control ELSE <<>>
             description == list[i].description
         IN  IF <<tag, description, control_reason>> \notin control_reasons
             THEN TerseControlled(Append(out, <<tag, control_reason>>),
                      control_reasons \cup {<<tag, description, control_reason>>},
                      list, i + 1)
             ELSE TerseControlled(out, control_reasons, list, i + 1)

\* lines 206-208, 212-214, 221-223: {tag: tag_data} for every entry
VerboseEntries(list) == [i \in 1..Len(list) |-> <<list[i].tag, list[i]>>]

\* lines 196-197 and 216-217
PopSuccess(results, show_success) ==
    IF ~show_success /\ "Success" \in DOMAIN results
    THEN DictPop(results, "Success") ELSE results

\* lines 199-200 and 225-226
PopControlled(results) ==
    IF results["Controlled"] = <<>> THEN DictPop(results, "Controlled") ELSE results

\* lines 155-188: the three terse lists
TerseLists(r) ==
    [Failure |-> TerseEntries(<<>>, {}, Get(r, "Failure"), 1),
     Success |-> TerseEntries(<<>>, {}, Get(r, "Success"), 1),
     Controlled |-> TerseControlled(<<>>, {}, Get(r, "Controlled"), 1)]

\* lines 155-200
TerseResults(r, show_success) == PopControlled(PopSuccess(TerseLists(r), show_success))

\* lines 203-228
VerboseResults(r, show_success) ==
    PopControlled(DictSet(PopSuccess([Failure |-> VerboseEntries(Get(r, "Failure")),
                                      Success |-> VerboseEntries(Get(r, "Success"))],
                                     show_success),
                          "Controlled", VerboseEntries(Get(r, "Controlled"))))

\* lines 190-194: the score is taken over the terse lists, before Success is hidden
AuditCompliance(r, show_compliance) ==
    IF show_compliance THEN CalculateCompliance(TerseLists(r)) ELSE False

NoAuditsMatched == "No audits matched this host in the specified profiles."

\* lines 238-241
RECURSIVE AppendErrors(_, _, _)
AppendErrors(results, errors, i) ==
    IF i > Len(errors) THEN results
    ELSE AppendErrors(DictAppend(results, "Errors", errors[i]), errors, i + 1)

\* lines 232-233
AddCompliance(results, compliance) ==
    IF Truthy(compliance) THEN DictSet(results, "Compliance", compliance) ELSE results

\* lines 235-236
AddMessages(results, called_from_top) ==
    IF ~called_from_top /\ DOMAIN results = {}
    THEN DictSet(results, "Messages", NoAuditsMatched) ELSE results

\* lines 155-243
Render(r, verbose, show_success, show_compliance, called_from_top) ==
    AppendErrors(
        AddMessages(
            AddCompliance(IF verbose THEN VerboseResults(r, show_success)
                          ELSE TerseResults(r, show_success),
                          AuditCompliance(r, show_compliance)),
            called_from_top),
        Get(r, "Errors"), 1)

NothingLoaded == [status |-> "failed",
                  value |-> <<"False", "No nova modules/data have been loaded.">>,
                  calls |-> <<>>,
                  run |-> <<>>]

\* lines 153-243: run is what _run_audit did
AuditRendered(run, verbose, show_success, show_compliance, called_from_top) ==
    [status |-> "ok",
     value |-> Render(run.results, verbose, show_success, show_compliance,
                      called_from_top),
     calls |-> run.calls,
     run |-> [returned |-> run.results]]

\* lines 115-243, for configs that are not None; configs is a list of
\* requests or a comma-separated string of them
AuditConfigs(configs, tags, verbose, show_success, show_compliance, called_from_top) ==
    IF Len(nova_dict) = 0 THEN NothingLoaded
    ELSE AuditRendered(RunAudit(ConfigPaths(IF configs.type # "list"
                                            THEN Split(configs.value, ",")
                                            ELSE configs.value),
                                tags),
                       verbose, show_success, show_compliance, called_from_top)

-----------------------------------------------------------------------------
(* top(topfile, verbose, show_success, show_compliance)                    *)
(*                                                                         *)
(* results maps a class to a list, except that line 467 makes              *)
(* results['Errors'] a dict: a value of results carries its Python type.   *)

PyList(val) == [type |-> "list", val |-> val]
PyDict(val) == [type |-> "dict", val |-> val]
PyStr(val) == [type |-> "str", val |-> val]

topfile == <<"t", "o", "p", ".", "n", "o", "v", "a">>

TopStr(request) == [type |-> "str", value |-> request]
TopDict(request, tag) == [type |-> "dict", value |-> <<<<request, tag>>>>]
TopOther(text) == [type |-> "other", value |-> text]

\* data_by_tag, in insertion order: a sequence of [tag, data]
TagIndex(data_by_tag, tag) ==
    LET hits == {i \in 1..Len(data_by_tag) : data_by_tag[i].tag = tag}
    IN  IF hits = {} THEN 0 ELSE CHOOSE i \in hits : TRUE

\* a variant of TagAppend that opens a group for every request
TagAppend_NoBatch(data_by_tag, tag, key) ==
    Append(data_by_tag, [tag |-> tag, data |-> <<key>>])

\* if tag not in data_by_tag: data_by_tag[tag] = [] ; data_by_tag[tag].append(key)
TagAppend(data_by_tag, tag, key) ==
    LET i == TagIndex(data_by_tag, tag)
    IN  IF i = 0 THEN Append(data_by_tag, [tag |-> tag, data |-> <<key>>])
        ELSE [data_by_tag EXCEPT ![i].data = Append(@, key)]

\* lines 461-464
RECURSIVE TagItems(_, _, _)
TagItems(data_by_tag, items, i) ==
    IF i > Len(items) THEN data_by_tag
    ELSE TagItems(TagAppend(data_by_tag, items[i][2], items[i][1]), items, i + 1)

MalformedError(data) ==
    [error |-> <<"topfile malformed, list entries must be strings or dicts: ">>
               \o data.value]

\* lines 455-472, one iteration of the loop over top_data
GroupEntry(st, data) ==
    IF data.type = "str"
    THEN [st EXCEPT !.data_by_tag = TagAppend(@, "*", data.value)]
    ELSE IF data.type = "dict"
    THEN [st EXCEPT !.data_by_tag = TagItems(@, data.value, 1)]
    ELSE [st EXCEPT !.results =
             DictSet(@, "Errors",
                 PyDict(DictSet(IF "Errors" \in DOMAIN @ THEN @["Errors"].val ELSE <<>>,
                                topfile, MalformedError(data))))]

RECURSIVE GroupEntries(_, _, _)
GroupEntries(st, top_data, i) ==
    IF i > Len(top_data) THEN st
    ELSE GroupEntries(GroupEntry(st, top_data[i]), top_data, i + 1)

\* lines 487-490: results[key].extend(val) raises AttributeError on a dict
RECURSIVE TopMergeKeys(_, _, _)
TopMergeKeys(st, r, keys) ==
    IF keys = {} \/ st.raised # None THEN st
    ELSE LET key == CHOOSE k \in keys : TRUE
             results == IF key \notin DOMAIN st.results
                        THEN DictSet(st.results, key, PyList(<<>>)) ELSE st.results
         IN  TopMergeKeys(
                 IF results[key].type = "list"
                 THEN [st EXCEPT !.results =
                          DictSet(results, key, PyList(results[key].val \o r[key]))]
                 ELSE [st EXCEPT !.results = results,
                                 !.raised = <<"AttributeError">>],
                 r, keys \ {key})

\* lines 487-490: r is what audit() returned
MergeAudit(st, r) ==
    [TopMergeKeys(st, r.value, DOMAIN r.value) EXCEPT !.calls = @ \o r.calls,
                                                      !.audits = @ + 1]

\* lines 478-490, one iteration of the loop over data_by_tag
AuditGroup(st, group, verbose) ==
    MergeAudit(st, AuditConfigs([type |-> "list", value |-> group.data], group.tag,
                                verbose, TRUE, FALSE, TRUE))

RECURSIVE AuditGroups(_, _, _, _)
AuditGroups(st, data_by_tag, verbose, i) ==
    IF i > Len(data_by_tag) \/ st.raised # None THEN st
    ELSE AuditGroups(AuditGroup(st, data_by_tag[i], verbose), data_by_tag, verbose, i + 1)

\* len() of a class of top's results
TopLen(results, key) == IF key \in DOMAIN results THEN Len(results[key].val) ELSE 0

\* line 493: _calculate_compliance(results)
TopCompliance(results) ==
    CalculateCompliance([key \in {"Success", "Failure", "Controlled"} |->
                            [i \in 1..TopLen(results, key) |-> i]])

\* not results[key], for a list, a dict or a string
Empty(v) == IF v.type = "dict" THEN DOMAIN v.val = {} ELSE v.val = <<>>

\* lines 492-495
TopAddCompliance(results, compliance) ==
    IF Truthy(compliance)
    THEN DictSet(results, "Compliance", PyStr(compliance)) ELSE results

\* lines 497-499
TopDropEmpty(results) ==
    [key \in {k \in DOMAIN results : ~Empty(results[k])} |-> results[key]]

\* lines 501-502
TopAddMessages(results) ==
    IF DOMAIN results = {}
    THEN DictSet(results, "Messages", PyStr(<<NoAuditsMatched>>)) ELSE results

\* lines 492-507
TopFinish(results, show_success, show_compliance) ==
    PopSuccess(
        TopAddMessages(
            TopDropEmpty(IF show_compliance
                         THEN TopAddCompliance(results, TopCompliance(results))
                         ELSE results)),
        show_success)

\* lines 474-507: ran is the state after the loop over data_by_tag
TopReturn(grouped, ran, show_success, show_compliance) ==
    IF grouped.data_by_tag = <<>>
    THEN [status |-> "ok", value |-> grouped.results,
          calls |-> <<>>, run |-> <<>>, audits |-> 0]
    ELSE IF ran.raised # None
    THEN [status |-> "raised", value |-> ran.raised,
          calls |-> ran.calls, run |-> <<>>, audits |-> ran.audits]
    ELSE [status |-> "ok",
          value |-> TopFinish(ran.results, show_success, show_compliance),
          calls |-> ran.calls, run |-> <<>>, audits |-> ran.audits]

\* lines 474-507: grouped is the state after the loop over top_data
TopGrouped(grouped, verbose, show_success, show_compliance) ==
    TopReturn(grouped,
              AuditGroups([results |-> grouped.results, raised |-> None,
                           calls |-> <<>>, audits |-> 0],
                          grouped.data_by_tag, verbose, 1),
              show_success, show_compliance)

\* lines 429-507; top_data is what _get_top_data(topfile) returned
Top(top_data, verbose, show_success, show_compliance) ==
    IF Len(nova_dict) = 0 THEN NothingLoaded @@ [audits |-> 0]
    ELSE TopGrouped(GroupEntries([results |-> <<>>, data_by_tag |-> <<>>], top_data, 1),
                    verbose, show_success, show_compliance)

\* lines 110-243
Audit(configs, top_data, tags, verbose, show_success, show_compliance) ==
    IF configs.type = "None"
    THEN Top(top_data, verbose, show_success, show_compliance)
    ELSE AuditConfigs(configs, tags, verbose, show_success, show_compliance, FALSE)

-----------------------------------------------------------------------------
(* The calls *)

TagGlobs == {"*", "T1"}

RECURSIVE SeqsUpTo(_, _)
SeqsUpTo(S, n) ==
    IF n = 0 THEN {<<>>}
    ELSE LET shorter == SeqsUpTo(S, n - 1)
         IN  shorter \cup {Append(q, x) : q \in shorter, x \in S}

ConfigLists == SeqsUpTo(Requests, MaxConfigs) \ {<<>>}

\* ",".join(requests)
RECURSIVE CommaJoin(_, _)
CommaJoin(requests, i) ==
    IF i > Len(requests) THEN <<>>
    ELSE IF i = 1 THEN requests[1] \o CommaJoin(requests, 2)
    ELSE <<",">> \o requests[i] \o CommaJoin(requests, i + 1)

\* the configs argument of audit(): a list, or a comma-separated string
ConfigArgs ==
    {[type |-> "list", value |-> l] : l \in ConfigLists}
    \cup {[type |-> "str", value |-> CommaJoin(l, 1)] : l \in ConfigLists}

\* the entries _get_top_data() may return
TopEntries ==
    { TopStr(<<"a", ".", "b">>),
      TopStr(<<"z">>),
      TopDict(<<"a">>, "T1"),
      TopOther(<<"4", "2">>) }

TopLists == SeqsUpTo(TopEntries, MaxTop)

Init ==
    /\ nova_dict \in {[i \in 1..Len(ModuleNames) |->
                          [name |-> ModuleNames[i], kind |-> kinds[i]]] :
                      kinds \in [1..Len(ModuleNames) -> ModuleKinds]}
    /\ nova_data \in {f \in [Keys -> UNION {ProfileMenu(k) : k \in Keys}] :
                        \A k \in Keys : f[k] \in ProfileMenu(k)}
    /\ fn = "none"
    /\ args = <<>>
    /\ ret = <<>>
    /\ module_calls = <<>>
    /\ run_trace = <<>>

\* _run_audit(configs, tags, debug), as audit() calls it
CallRunAudit ==
    /\ fn = "none"
    /\ \E requests \in ConfigLists, tags \in TagGlobs :
      \E configs \in {ConfigPaths(requests)} :
      \E r \in {RunAudit(configs, tags)} :
            /\ fn' = "_run_audit"
            /\ args' = [requests |-> requests, configs |-> configs, tags |-> tags]
            /\ ret' = r.results
            /\ module_calls' = r.calls
            /\ run_trace' = r.trace
            /\ UNCHANGED <<nova_dict, nova_data>>

\* audit(configs, tags, verbose, show_success, show_compliance) by a user;
\* without configs it hands over to top()
CallAudit ==
    /\ fn = "none"
    /\ \E configs \in ConfigArgs \cup {[type |-> "None", value |-> <<>>]},
          verbose \in BOOLEAN, show_success \in BOOLEAN, show_compliance \in BOOLEAN :
      \E top_data \in IF configs.type = "None" THEN TopLists ELSE {<<>>} :
      \E r \in {Audit(configs, top_data, "*", verbose, show_success, show_compliance)} :
            /\ fn' = "audit"
            /\ args' = [configs |-> configs, top_data |-> top_data,
                        tags |-> "*", verbose |-> verbose,
                        show_success |-> show_success,
                        show_compliance |-> show_compliance]
            /\ ret' = [status |-> r.status, value |-> r.value]
            /\ module_calls' = r.calls
            /\ run_trace' = r.run
            /\ UNCHANGED <<nova_dict, nova_data>>

\* top(topfile, verbose, show_success, show_compliance)
CallTop ==
    /\ fn = "none"
    /\ \E top_data \in TopLists, verbose \in BOOLEAN,
          show_success \in BOOLEAN, show_compliance \in BOOLEAN :
      \E r \in {Top(top_data, verbose, show_success, show_compliance)} :
            /\ fn' = "top"
            /\ args' = [top_data |-> top_data, verbose |-> verbose,
                        show_success |-> show_success,
                        show_compliance |-> show_compliance]
            /\ ret' = [status |-> r.status, value |-> r.value]
            /\ module_calls' = r.calls
            /\ UNCHANGED <<nova_dict, nova_data, run_trace>>

\* a results mapping with the given numbers of entries
CountedResults(success, failure, control) ==
    [Success |-> [i \in 1..success |-> [tag |-> "T", description |-> "D"]],
     Failure |-> [i \in 1..failure |-> [tag |-> "T", description |-> "D"]],
     Controlled |-> [i \in 1..control |-> [tag |-> "T", description |-> "D"]]]

\* _calculate_compliance(results)
CallCalculateCompliance ==
    /\ fn = "none"
    /\ \E success \in 0..MaxSuccess, failure \in 0..MaxFailure,
          control \in 0..MaxControl :
            /\ fn' = "_calculate_compliance"
            /\ args' = [success |-> success, failure |-> failure, control |-> control]
            /\ ret' = CalculateCompliance(CountedResults(success, failure, control))
            /\ UNCHANGED <<nova_dict, nova_data, module_calls, run_trace>>

\* __nova__ = {} (line 37): nothing loaded yet
InitEmpty ==
    /\ nova_dict = <<>>
    /\ nova_data = <<>>
    /\ fn = "none"
    /\ args = <<>>
    /\ ret = <<>>
    /\ module_calls = <<>>
    /\ run_trace = <<>>

NextRun == CallRunAudit
NextAudit == CallAudit
NextTop == CallTop
NextCompliance == CallCalculateCompliance
Next == CallRunAudit \/ CallAudit \/ CallTop \/ CallCalculateCompliance

\* one call of each entry point on a loaded __nova__
SpecRun == Init /\ [][NextRun]_vars
SpecAudit == Init /\ [][NextAudit]_vars
SpecTop == Init /\ [][NextTop]_vars
SpecCompliance == InitEmpty /\ [][NextCompliance]_vars
Spec == Init /\ [][Next]_vars

-----------------------------------------------------------------------------
(* Properties of _run_audit, checked under SpecRun *)

\* how often x occurs in a list
CountOf(list, x) == Cardinality({i \in 1..Len(list) : list[i] = x})

\* the (tag, description) of every entry of a list
TagDescriptions(list) == [i \in 1..Len(list) |-> <<list[i].tag, list[i].description>>]

\* the tags of every entry of a list
TagsOf(list) == [i \in 1..Len(list) |-> list[i].tag]

\* what the well-behaved modules returned for a class, in invocation order
RECURSIVE Returned(_, _, _, _)
Returned(class, data_list, tags, i) ==
    IF i > Len(nova_dict) THEN <<>>
    ELSE (IF nova_dict[i].kind = "ok"
          THEN ModuleCall(nova_dict[i], data_list, tags).value[class]
          ELSE <<>>)
         \o Returned(class, data_list, tags, i + 1)

\* the Errors entries of a result keyed by a module
ModuleErrors(results, name) ==
    SelectSeq(Get(results, "Errors"), LAMBDA e : e.key = name)

\* C1: every loaded module is invoked exactly once; a module that raises or
\* returns a non-dict contributes exactly one Errors entry keyed by its name,
\* and every entry returned by every other module is in the aggregated
\* result: Success as returned, Failure and Controlled entries in Failure or
\* Controlled.
C1_ModuleIsolation ==
    fn = "_run_audit" =>
        LET data_list == DataList(run_trace.to_run)
            returned == [class \in {"Success", "Failure", "Controlled"} |->
                            Returned(class, data_list, args.tags, 1)]
            kept == TagDescriptions(Get(ret, "Failure") \o Get(ret, "Controlled"))
            sent == TagDescriptions(returned["Failure"] \o returned["Controlled"])
        IN  /\ \A i \in 1..Len(nova_dict) :
                /\ Cardinality({j \in 1..Len(module_calls) :
                                   module_calls[j].module = nova_dict[i].name}) = 1
                /\ Len(ModuleErrors(ret, nova_dict[i].name))
                      = IF nova_dict[i].kind = "ok" THEN 0 ELSE 1
            /\ Get(ret, "Success") = returned["Success"]
            /\ Len(kept) = Len(sent)
            /\ \A i \in 1..Len(sent) : CountOf(kept, sent[i]) = CountOf(sent, sent[i])

\* one module raises, one returns None, and the third one's entries are kept
C1_Witness ==
    /\ fn = "_run_audit"
    /\ nova_dict[1].kind = "ok"
    /\ nova_dict[2].kind = "raise"
    /\ nova_dict[3].kind = "bad"
    /\ Len(ModuleErrors(ret, m2)) = 1
    /\ Len(ModuleErrors(ret, m3)) = 1
    /\ Len(Get(ret, "Failure")) = 2
    /\ Len(module_calls) = 3

\* the tags that have a control and a Failure entry among the merged results
ControlledFailureTags ==
    {t \in DOMAIN run_trace.processed_controls :
        CountOf(TagsOf(Get(run_trace.merged, "Failure")), t) > 0}

\* C2 as stated: after reclassification a tag that has a control and a
\* Failure entry is in Controlled exactly once and in Failure zero times.
C2_ExactlyOnce ==
    fn = "_run_audit" =>
        \A t \in ControlledFailureTags :
            /\ CountOf(TagsOf(Get(ret, "Controlled")), t) = 1
            /\ CountOf(TagsOf(Get(ret, "Failure")), t) = 0

\* C2: after reclassification a tag that has a control and a Failure entry
\* is in Failure zero times, and in Controlled once for every merged Failure
\* entry that carries it, next to the Controlled entries the modules returned
\* for it; the entries moved carry the control's reason.
C2_OncePerFailure ==
    fn = "_run_audit" =>
        \A t \in ControlledFailureTags :
            /\ CountOf(TagsOf(Get(ret, "Failure")), t) = 0
            /\ CountOf(TagsOf(Get(ret, "Controlled")), t)
                  = CountOf(TagsOf(Get(run_trace.merged, "Failure")), t)
                    + CountOf(TagsOf(Get(run_trace.merged, "Controlled")), t)
            /\ Cardinality({i \in 1..Len(Get(ret, "Controlled")) :
                               /\ ret["Controlled"][i].tag = t
                               /\ "control" \in DOMAIN ret["Controlled"][i]})
                  = CountOf(TagsOf(Get(run_trace.merged, "Failure")), t)

\* two modules report a Failure for the same controlled tag: it is in
\* Controlled twice
C2_Witness ==
    /\ fn = "_run_audit"
    /\ "T1" \in ControlledFailureTags
    /\ CountOf(TagsOf(Get(run_trace.merged, "Failure")), "T1") = 2
    /\ CountOf(TagsOf(Get(ret, "Controlled")), "T1") = 2
    /\ CountOf(TagsOf(Get(ret, "Failure")), "T1") = 0

\* a config selects a key when it is the root, or when its segments are the
\* first segments of the key without its .yaml suffix
Selects(config, key) ==
    LET key_segments == Split(StripYaml(key), sep)
        config_segments == Split(config, sep)
    IN  \/ config = <<sep>>
        \/ /\ Len(config_segments) <= Len(key_segments)
           /\ SubSeq(key_segments, 1, Len(config_segments)) = config_segments

SelectedKeys(configs) ==
    {key \in DOMAIN nova_data : \E i \in 1..Len(configs) : Selects(configs[i], key)}

\* C3: a request is normalised by dropping .yaml and turning dots into path
\* separators under the root; a key is selected iff some request is the root
\* or its segments are a segment-wise prefix of the key's ('a.b' selects
\* /a/b/c.yaml but not /a/bx/c.yaml); the selection is the union over the
\* requests and every selected key is once in the data list of each module.
C3_Selection ==
    fn = "_run_audit" =>
        /\ \A i \in 1..Len(args.requests) :
              /\ args.requests[i] = <<"a", ".", "b">>
                    => args.configs[i] = <<"/", "a", "/", "b">>
              /\ args.requests[i] = <<"d", ".", "y", "a", "m", "l">>
                    => args.configs[i] = <<"/", "d">>
              /\ args.requests[i] = <<>> => args.configs[i] = <<"/">>
        /\ run_trace.to_run = SelectedKeys(args.configs)
        /\ args.requests = << <<"a", ".", "b">> >> => run_trace.to_run = {K_abc}
        /\ \A j \in 1..Len(module_calls) :
              /\ {module_calls[j].keys[n] : n \in 1..Len(module_calls[j].keys)}
                    = run_trace.to_run
              /\ Len(module_calls[j].keys) = Cardinality(run_trace.to_run)

\* 'a.b' selected /a/b/c.yaml and left /a/bx/c.yaml out
C3_Witness ==
    /\ fn = "_run_audit"
    /\ args.requests = << <<"a", ".", "b">> >>
    /\ run_trace.to_run = {K_abc}
    /\ Len(module_calls) = 3
    /\ module_calls[1].keys = <<K_abc>>

\* C10: every request that selects no key gives one Errors entry keyed by
\* the request with the message 'No matching profiles found for <request>',
\* a request that selects a key gives none, and the other requests are
\* still selected and run.
C10_UnmatchedRequests ==
    fn = "_run_audit" =>
        LET unmatched == SelectSeq(args.configs, LAMBDA c : SelectedKeys(<<c>>) = {})
            reported == SelectSeq(Get(ret, "Errors"),
                                  LAMBDA e : \A i \in 1..Len(nova_dict) :
                                                 e.key # nova_dict[i].name)
        IN  /\ reported = [i \in 1..Len(unmatched) |->
                              [key |-> unmatched[i],
                               error |-> <<"No matching profiles found for ">>
                                         \o unmatched[i]]]
            /\ run_trace.to_run = SelectedKeys(args.configs)
            /\ Len(module_calls) = Len(nova_dict)
            /\ \A j \in 1..Len(module_calls) :
                  {module_calls[j].keys[n] : n \in 1..Len(module_calls[j].keys)}
                      = run_trace.to_run

\* 'a.b' after the unmatched 'z': one error for /z, and /a/b/c.yaml was run
C10_Witness ==
    /\ fn = "_run_audit"
    /\ args.configs = << <<"/", "a", "/", "b">>, <<"/", "z">> >>
    /\ \A i \in 1..Len(nova_dict) : nova_dict[i].kind = "ok"
    /\ Get(ret, "Errors")
          = << [key |-> <<"/", "z">>,
                error |-> <<"No matching profiles found for ", "/", "z">>] >>
    /\ run_trace.to_run = {K_abc}
    /\ module_calls[3].keys = <<K_abc>>

-----------------------------------------------------------------------------
(* Properties of _calculate_compliance, checked under SpecCompliance *)

\* C4: _calculate_compliance returns None when S + F + C = 0 and otherwise
\* '<n>%' with n = floor(100 * (S + C) / (S + F + C)).
C4_FloorPercentage ==
    fn = "_calculate_compliance" =>
        LET passed == args.success + args.control
            total == args.success + args.failure + args.control
        IN  ret = IF total = 0 THEN None
                  ELSE IntToStr((100 * passed) \div total) \o <<"%">>

-----------------------------------------------------------------------------
(* Properties of audit(), checked under SpecAudit *)

\* where x first occurs in a list
FirstIndex(list, x) ==
    CHOOSE i \in 1..Len(list) : list[i] = x /\ \A j \in 1..(i - 1) : list[j] # x

\* C5: in one audit() call the terse view of Failure, and of Success when
\* it is shown, has exactly one {tag: description} entry per distinct
\* (tag, description) among the aggregated entries of the class, in
\* first-occurrence order; the verbose view has one entry per aggregated
\* entry.
C5_Views ==
    (fn = "audit" /\ args.configs.type # "None" /\ ret.status = "ok") =>
        \A class \in {"Failure"} \cup (IF args.show_success THEN {"Success"} ELSE {}) :
            LET list == Get(run_trace.returned, class)
                view == Get(ret.value, class)
                pairs == TagDescriptions(list)
            IN  IF args.verbose
                THEN view = [i \in 1..Len(list) |-> <<list[i].tag, list[i]>>]
                ELSE /\ {view[i] : i \in 1..Len(view)} = {pairs[i] : i \in 1..Len(pairs)}
                     /\ \A i, j \in 1..Len(view) :
                           i < j => /\ view[i] # view[j]
                                    /\ FirstIndex(pairs, view[i]) < FirstIndex(pairs, view[j])

\* two modules report Failure {T1, D}: one terse {T1: D}
C5_Witness ==
    /\ fn = "audit"
    /\ args.configs.type = "list"
    /\ ~args.verbose
    /\ ret.status = "ok"
    /\ CountOf(TagDescriptions(Get(run_trace.returned, "Failure")), <<"T1", "D">>) = 2
    /\ CountOf(Get(ret.value, "Failure"), <<"T1", "D">>) = 1

\* is a class of a returned mapping without entries
NoEntries(value, key) ==
    \/ key \notin DOMAIN value
    \/ IF args.configs.type = "None" THEN Empty(value[key]) ELSE value[key] = <<>>

\* C8 as stated: a call of audit(), direct or handed over to top(), that has
\* no Failure, Success, Controlled or Errors entries to return returns a
\* Messages entry.
C8_NeverSilent ==
    (fn = "audit" /\ ret.status = "ok") =>
        ((\A key \in {"Failure", "Success", "Controlled", "Errors"} :
              NoEntries(ret.value, key))
            => "Messages" \in DOMAIN ret.value)

\* C9 as stated: a mapping returned by audit() has a Failure, Success,
\* Controlled or Errors key only if that class has an entry.
C9_NoEmptyClass ==
    (fn = "audit" /\ ret.status = "ok") =>
        \A key \in {"Failure", "Success", "Controlled", "Errors"} \cap DOMAIN ret.value :
            ~NoEntries(ret.value, key)

-----------------------------------------------------------------------------
(* Properties of top(), checked under SpecTop *)

WellFormed(top_data) ==
    \A i \in 1..Len(top_data) : top_data[i].type \in {"str", "dict"}

\* the tag filter and the request of a well-formed entry with one request
EntryGroup(data) ==
    IF data.type = "str" THEN [tag |-> "*", data |-> <<data.value>>]
    ELSE [tag |-> data.value[1][2], data |-> <<data.value[1][1]>>]

TagFilters(top_data) == {EntryGroup(top_data[i]).tag : i \in 1..Len(top_data)}

\* top() with every request audited in its own invocation
SplitTop(top_data, verbose, show_success, show_compliance) ==
    LET ran == AuditGroups([results |-> <<>>, raised |-> None,
                            calls |-> <<>>, audits |-> 0],
                           [i \in 1..Len(top_data) |-> EntryGroup(top_data[i])],
                           verbose, 1)
    IN  TopFinish(ran.results, show_success, show_compliance)

\* C6 as stated: for top entries sharing one tag filter, top() returns what
\* auditing each request in its own invocation and merging returns.
C6_BatchingUnobservable ==
    (/\ fn = "top"
     /\ args.top_data # <<>>
     /\ WellFormed(args.top_data)
     /\ Cardinality(TagFilters(args.top_data)) = 1) =>
        /\ ret.status = "ok"
        /\ ret.value = SplitTop(args.top_data, args.verbose, args.show_success,
                                args.show_compliance)

\* C6: top() runs one audit invocation per distinct tag filter; for top
\* entries sharing one filter its result is the result of that single
\* invocation over all their requests (every module invoked once, terse
\* entries deduplicated and controls applied across the batch) under top's
\* finishing steps, which per-request auditing need not equal.
C6_OneAuditPerFilter ==
    (fn = "top" /\ args.top_data # <<>> /\ WellFormed(args.top_data)) =>
        /\ ret.status = "ok"
        /\ Len(module_calls) = Len(nova_dict) * Cardinality(TagFilters(args.top_data))
        /\ Cardinality(TagFilters(args.top_data)) = 1 =>
              LET filter == CHOOSE t \in TagFilters(args.top_data) : TRUE
                  requests == [i \in 1..Len(args.top_data) |->
                                  EntryGroup(args.top_data[i]).data[1]]
                  one == AuditConfigs([type |-> "list", value |-> requests], filter,
                                      args.verbose, TRUE, FALSE, TRUE)
              IN  /\ module_calls = one.calls
                  /\ ret.value = TopFinish([key \in DOMAIN one.value |->
                                               PyList(one.value[key])],
                                           args.show_success, args.show_compliance)

\* 'a.b' twice in the top file: one invocation, two terse Failure entries
\* where two invocations give four
C6_Witness ==
    /\ fn = "top"
    /\ args.top_data = <<TopStr(<<"a", ".", "b">>), TopStr(<<"a", ".", "b">>)>>
    /\ ~args.verbose
    /\ ret.status = "ok"
    /\ Len(module_calls) = 3
    /\ TopLen(ret.value, "Failure") = 2
    /\ TopLen(SplitTop(args.top_data, FALSE, args.show_success,
                       args.show_compliance), "Failure") = 4

\* C7 as stated: with a list entry that is neither a string nor a mapping,
\* top() completes, and its result has the malformed-entry error under the
\* topfile path.
C7_MalformedSkipped ==
    (fn = "top" /\ ~WellFormed(args.top_data)) =>
        /\ ret.status = "ok"
        /\ "Errors" \in DOMAIN ret.value
        /\ ret.value["Errors"].type = "dict" => topfile \in DOMAIN ret.value["Errors"].val

-----------------------------------------------------------------------------
(* Further properties of _run_audit, checked under SpecRun *)

\* the requests that select no key, in request order
UnmatchedConfigs == SelectSeq(args.configs, LAMBDA c : SelectedKeys(<<c>>) = {})

\* the modules that raise or return a non-dict, in iteration order
FaultyModules == SelectSeq(nova_dict, LAMBDA mod : mod.kind # "ok")

\* C11 as stated: the Errors sequence returned by _run_audit has no two
\* equal entries.
C11_NoEqualErrors ==
    fn = "_run_audit" =>
        \A i, j \in 1..Len(Get(ret, "Errors")) :
            i < j => ret["Errors"][i] # ret["Errors"][j]

\* C11: _run_audit does not deduplicate error entries: Errors holds one
\* entry per occurrence of a request that selects no key, in request order,
\* then one entry per faulting module; two entries are equal exactly when
\* they come from two occurrences of the same unmatched request.
C11_ErrorsPerOccurrence ==
    fn = "_run_audit" =>
        LET errors == Get(ret, "Errors")
            n == Len(UnmatchedConfigs)
        IN  /\ Len(errors) = n + Len(FaultyModules)
            /\ \A i \in 1..n : errors[i].key = UnmatchedConfigs[i]
            /\ \A i \in 1..Len(FaultyModules) : errors[n + i].key = FaultyModules[i].name
            /\ \A i, j \in 1..Len(errors) :
                  i < j => (errors[i] = errors[j]
                               <=> (j <= n /\ UnmatchedConfigs[i] = UnmatchedConfigs[j]))

\* 'z' requested twice: two equal Errors entries, before the module's entry
C11_Witness ==
    /\ fn = "_run_audit"
    /\ args.configs = << <<"/", "z">>, <<"/", "z">> >>
    /\ nova_dict[1].kind = "raise"
    /\ Len(Get(ret, "Errors")) >= 3
    /\ ret["Errors"][1] = ret["Errors"][2]
    /\ ret["Errors"][3].key = m1

\* the merged Failure entries whose tag has a control, and the others
ControlledFailures ==
    SelectSeq(Get(run_trace.merged, "Failure"),
              LAMBDA e : e.tag \in DOMAIN run_trace.processed_controls)

UncontrolledFailures ==
    SelectSeq(Get(run_trace.merged, "Failure"),
              LAMBDA e : e.tag \notin DOMAIN run_trace.processed_controls)

\* C12: control reclassification is a stable partition of the merged
\* Failure sequence: Failure is afterwards the subsequence of the entries
\* whose tag has no control, in their order; the entries whose tag has a
\* control are appended once each to Controlled, after the modules' own
\* Controlled entries and in their order, carrying the control; no entry is
\* in both, and Failure plus Controlled keep their number.
C12_StablePartition ==
    fn = "_run_audit" =>
        LET emitted == Get(run_trace.merged, "Controlled")
            controlled == Get(ret, "Controlled")
            moved == SubSeq(controlled, Len(emitted) + 1, Len(controlled))
        IN  /\ Get(ret, "Failure") = UncontrolledFailures
            /\ Len(controlled) = Len(emitted) + Len(ControlledFailures)
            /\ SubSeq(controlled, 1, Len(emitted)) = emitted
            /\ TagDescriptions(moved) = TagDescriptions(ControlledFailures)
            /\ \A i \in 1..Len(moved) :
                  /\ "control" \in DOMAIN moved[i]
                  /\ \A j \in 1..Len(Get(ret, "Failure")) :
                        ret["Failure"][j].tag # moved[i].tag
            /\ Len(Get(ret, "Failure")) + Len(controlled)
                  = Len(Get(run_trace.merged, "Failure")) + Len(emitted)

\* of the merged Failure entries T1, T2, T1 the first and the last are moved
C12_Witness ==
    /\ fn = "_run_audit"
    /\ TagsOf(Get(run_trace.merged, "Failure")) = <<"T1", "T2", "T1">>
    /\ DOMAIN run_trace.processed_controls = {"T1"}
    /\ TagsOf(Get(ret, "Failure")) = <<"T2">>
    /\ TagsOf(Get(ret, "Controlled")) = <<"T1", "T1">>

-----------------------------------------------------------------------------
(* Further properties of top(), checked under SpecTop *)

\* the Compliance value of what top() returned, None when it has none
ComplianceOf(r) ==
    IF r.status = "ok" /\ "Compliance" \in DOMAIN r.value
    THEN r.value["Compliance"] ELSE None

\* C13 as stated: for the same loaded modules and profiles and the same top
\* data, the Compliance value in the result of top() is the same for every
\* value of verbose and of show_success.
C13_ComplianceIgnoresFlags ==
    (fn = "top" /\ ret.status = "ok") =>
        \A verbose, show_success \in BOOLEAN :
            ComplianceOf(Top(args.top_data, verbose, show_success,
                             args.show_compliance))
                = ComplianceOf(ret)

====
